---- MODULE Spec2Model ----
(***************************************************************************)
(* Model of the subnet engine (SubnetEngine, subnet-engine.js).            *)
(*                                                                         *)
(* The engine is a set of pure functions over dotted-decimal address text, *)
(* prefix lengths and JavaScript numbers.  The model keeps the full 32-bit *)
(* width: a JavaScript number is a record [nan, hi, lo] standing for the   *)
(* integer hi * 2^16 + lo (lo in 0 .. 2^16 - 1, hi any integer), because   *)
(* the model checker's own integers are narrower than 2^32.  Text is a     *)
(* string, taken apart and put together character by character as split,   *)
(* parseInt, toString and join do.                                         *)
(***************************************************************************)
EXTENDS Integers, Sequences, FiniteSets, TLC

VARIABLES call, ret, state, elements, localStorage, lastSave, event, alert,
          success, download

\* the variables of the application controller and its page
appVars == <<state, elements, localStorage, lastSave, event, alert, success, download>>

vars == <<call, ret, state, elements, localStorage, lastSave, event, alert,
          success, download>>

-----------------------------------------------------------------------------
(* Bounds of the model.                                                    *)

\* the largest newPrefix - basePrefix of a split: at most 2^MaxSplitBits subnets
MaxSplitBits == 3

-----------------------------------------------------------------------------
(* Evaluation order.  A function body computes its constants and the       *)
(* arguments of its calls before it uses them.  The model writes           *)
(*     Only({ e : v \in {value} })                                         *)
(* for "const v = value; return e": value is computed first, then e with v *)
(* bound to the result.                                                    *)

\* the element of a one-element set
Only(S) == CHOOSE v \in S : TRUE

-----------------------------------------------------------------------------
(* JavaScript numbers (integral values and NaN).                           *)

Two16 == 2^16
Two15 == 2^15

NaN == [nan |-> TRUE, hi |-> 0, lo |-> 0]

Num(h, l) == [nan |-> FALSE, hi |-> h, lo |-> l]

\* a small integer literal of the source as a number
FromInt(n) == Num(n \div Two16, n % Two16)

\* the value of a number that fits the checker's integers
ToInt(a) == a.hi * Two16 + a.lo

Zero == FromInt(0)
One == FromInt(1)

\* the literal 0xFFFFFFFF
AllOnes == Num(Two16 - 1, Two16 - 1)

\* a + b
Add(a, b) ==
    IF a.nan \/ b.nan THEN NaN
    ELSE LET s == a.lo + b.lo
         IN  Num(a.hi + b.hi + (s \div Two16), s % Two16)

\* a - b
Sub(a, b) ==
    IF a.nan \/ b.nan THEN NaN
    ELSE LET d == a.lo - b.lo
         IN  Num(a.hi - b.hi + (d \div Two16), d % Two16)

\* a * b for non-negative a, b (the products of the engine are below 2^33)
Mul(a, b) ==
    IF a.nan \/ b.nan THEN NaN
    ELSE LET q  == a.lo * (b.lo \div 256)
             r  == a.lo * (b.lo % 256)
             lw == (q % 256) * 256 + r
             hw == (q \div 256) + a.hi * b.lo + a.lo * b.hi
                   + a.hi * b.hi * Two16
         IN  Num(hw + (lw \div Two16), lw % Two16)

\* a < b, a <= b, a >= b (false when either side is NaN)
Lt(a, b) ==
    /\ ~a.nan /\ ~b.nan
    /\ (a.hi < b.hi \/ (a.hi = b.hi /\ a.lo < b.lo))

Le(a, b) ==
    /\ ~a.nan /\ ~b.nan
    /\ (a.hi < b.hi \/ (a.hi = b.hi /\ a.lo <= b.lo))

Ge(a, b) == Le(b, a)

\* ToUint32: the value modulo 2^32 (NaN becomes 0); this is x >>> 0
ToUint32(a) ==
    IF a.nan THEN Zero ELSE Num(a.hi % Two16, a.lo)

\* ToInt32: the value modulo 2^32, read as a signed 32-bit integer
ToInt32(a) ==
    LET u == ToUint32(a)
    IN  IF u.hi >= Two15 THEN Num(u.hi - Two16, u.lo) ELSE u

\* a << n: ToInt32 of a, shifted left by n modulo 32 bits, kept to 32 bits
ShiftLeft(a, n) ==
    LET u == ToUint32(a)
        k == n % 32
    IN  IF k >= 16
        THEN ToInt32(Num((u.lo * 2^(k - 16)) % Two16, 0))
        ELSE LET l == u.lo * 2^k
             IN  ToInt32(Num((u.hi * 2^k + (l \div Two16)) % Two16, l % Two16))

\* a >>> n: ToUint32 of a, shifted right by n modulo 32 bits, zero filled
UShiftRight(a, n) ==
    LET u == ToUint32(a)
        k == n % 32
    IN  IF k >= 16
        THEN Num(0, u.hi \div 2^(k - 16))
        ELSE Num(u.hi \div 2^k, (u.hi % 2^k) * 2^(16 - k) + (u.lo \div 2^k))

\* bit i of a word (bit 0 the lowest)
Bit(x, i) == (x \div 2^i) % 2

\* the bitwise AND and OR of two bits
AndBit(p, q) == p * q
OrBit(p, q) == p + q - p * q

\* the bitwise AND and OR of two 8-bit words, bit by bit
And8(x, y) ==
    ( (AndBit(Bit(x, 0), Bit(y, 0)) + 2 * AndBit(Bit(x, 1), Bit(y, 1)))
      + (4 * AndBit(Bit(x, 2), Bit(y, 2)) + 8 * AndBit(Bit(x, 3), Bit(y, 3))) )
    + ( (16 * AndBit(Bit(x, 4), Bit(y, 4)) + 32 * AndBit(Bit(x, 5), Bit(y, 5)))
        + (64 * AndBit(Bit(x, 6), Bit(y, 6)) + 128 * AndBit(Bit(x, 7), Bit(y, 7))) )

Or8(x, y) ==
    ( (OrBit(Bit(x, 0), Bit(y, 0)) + 2 * OrBit(Bit(x, 1), Bit(y, 1)))
      + (4 * OrBit(Bit(x, 2), Bit(y, 2)) + 8 * OrBit(Bit(x, 3), Bit(y, 3))) )
    + ( (16 * OrBit(Bit(x, 4), Bit(y, 4)) + 32 * OrBit(Bit(x, 5), Bit(y, 5)))
        + (64 * OrBit(Bit(x, 6), Bit(y, 6)) + 128 * OrBit(Bit(x, 7), Bit(y, 7))) )

\* the same of two 16-bit words
And16(x, y) == And8(x % 256, y % 256) + 256 * And8(x \div 256, y \div 256)
Or16(x, y) == Or8(x % 256, y % 256) + 256 * Or8(x \div 256, y \div 256)

\* a & b and a | b: on the 32-bit forms of both sides, the result a signed
\* 32-bit integer
BitAnd(a, b) ==
    Only({ ToInt32(w) :
             w \in { Num(And16(u.hi, v.hi), And16(u.lo, v.lo)) :
                       u \in {ToUint32(a)}, v \in {ToUint32(b)} } })

BitOr(a, b) ==
    Only({ ToInt32(w) :
             w \in { Num(Or16(u.hi, v.hi), Or16(u.lo, v.lo)) :
                       u \in {ToUint32(a)}, v \in {ToUint32(b)} } })

\* Math.pow(2, n) for an integer n in 0 .. 46
MathPow2(n) ==
    IF n < 16 THEN Num(0, 2^n) ELSE Num(2^(n - 16), 0)

-----------------------------------------------------------------------------
(* Text: split, parseInt, toString, padStart, join.                        *)

Digits == <<"0", "1", "2", "3", "4", "5", "6", "7", "8", "9">>

IsDigit(c) == \E i \in 1..10 : Digits[i] = c

DigitValue(c) == (CHOOSE i \in 1..10 : Digits[i] = c) - 1

\* the whitespace parseInt skips
IsSpace(c) == c = " "

CharAt(s, i) == SubSeq(s, i, i)

\* text.split('.'): the segments between the dots, empty segments kept
Split(s) ==
    LET dots == { i \in 1..Len(s) : CharAt(s, i) = "." }
        n == Cardinality(dots)
        \* the position of the k-th dot; 0 and Len(s) + 1 bound the text
        DotAt(k) ==
            IF k = 0 THEN 0
            ELSE IF k > n THEN Len(s) + 1
            ELSE CHOOSE d \in dots : Cardinality({ e \in dots : e < d }) = k - 1
    IN  [ k \in 1..(n + 1) |-> SubSeq(s, DotAt(k - 1) + 1, DotAt(k) - 1) ]

\* the digits of parseInt: the longest run of digits from position i on
RECURSIVE ParseDigits(_, _, _, _)
ParseDigits(s, i, acc, seen) ==
    IF i <= Len(s) /\ IsDigit(CharAt(s, i))
    THEN Only({ ParseDigits(s, i + 1, next, TRUE) :
                  next \in { Add(Mul(acc, FromInt(10)),
                                 FromInt(DigitValue(CharAt(s, i)))) } })
    ELSE IF seen THEN acc ELSE NaN

RECURSIVE SkipSpaces(_, _)
SkipSpaces(s, i) ==
    IF i <= Len(s) /\ IsSpace(CharAt(s, i)) THEN SkipSpaces(s, i + 1) ELSE i

\* parseInt(s, 10): leading whitespace, an optional sign, then digits up to
\* the first character that is none; NaN when there is no digit
ParseInt(s) ==
    LET i == SkipSpaces(s, 1)
        signed == i <= Len(s) /\ CharAt(s, i) \in {"-", "+"}
        j == IF signed THEN i + 1 ELSE i
        m == ParseDigits(s, j, Zero, FALSE)
    IN  IF signed /\ CharAt(s, i) = "-" /\ ~m.nan /\ m # Zero
        THEN Sub(Zero, m) ELSE m

\* the decimal digits of a non-negative integer
RECURSIVE NatToString(_)
NatToString(n) ==
    IF n < 10 THEN Digits[n + 1]
    ELSE NatToString(n \div 10) \o Digits[(n % 10) + 1]

\* num.toString() of an integral number or NaN
NumToString(a) ==
    IF a.nan THEN "NaN"
    ELSE IF a.hi < 0 THEN "-" \o NatToString(ToInt(Sub(Zero, a)))
    ELSE NatToString(ToInt(a))

\* num.toString(2) of a non-negative integer
RECURSIVE NatToBinary(_)
NatToBinary(n) ==
    IF n < 2 THEN Digits[n + 1]
    ELSE NatToBinary(n \div 2) \o Digits[(n % 2) + 1]

\* s.padStart(8, '0')
RECURSIVE PadStart8(_)
PadStart8(s) == IF Len(s) >= 8 THEN s ELSE PadStart8("0" \o s)

\* parts.join('.')
RECURSIVE JoinDots(_)
JoinDots(parts) ==
    IF Len(parts) = 0 THEN ""
    ELSE IF Len(parts) = 1 THEN parts[1]
    ELSE parts[1] \o "." \o JoinDots(Tail(parts))

-----------------------------------------------------------------------------
(* The engine's functions.                                                 *)

\* the test of one octet without its "octet === num.toString()"
isValidOctetByRange(octet) ==
    LET num == ParseInt(octet)
    IN  Ge(num, Zero) /\ Le(num, FromInt(255))

isValidOctet(octet) ==
    LET num == ParseInt(octet)
    IN  Ge(num, Zero) /\ Le(num, FromInt(255)) /\ octet = NumToString(num)

isValidIP(ip) ==
    LET octets == Split(ip)
    IN  IF Len(octets) # 4 THEN FALSE
        ELSE \A k \in 1..Len(octets) : isValidOctet(octets[k])

\* a number given as a prefix: NaN, or a multiple of one half (halves / 2)
NaNValue == [nan |-> TRUE, halves |-> 0]
Halves(h) == [nan |-> FALSE, halves |-> h]
Whole(n) == Halves(2 * n)

\* Number.isInteger(value)
NumberIsInteger(value) == ~value.nan /\ value.halves % 2 = 0

\* isValidPrefix without its Number.isInteger
isValidPrefixByRange(value) ==
    /\ ~value.nan /\ value.halves >= 0
    /\ ~value.nan /\ value.halves <= 2 * 32

\* prefix >= 0 && prefix <= 32 && Number.isInteger(prefix), a comparison
\* with NaN being false
isValidPrefixNumber(value) ==
    /\ ~value.nan /\ value.halves >= 0
    /\ ~value.nan /\ value.halves <= 2 * 32
    /\ NumberIsInteger(value)

\* isValidPrefix of the integer prefixes the other functions are called with
isValidPrefix(prefix) == isValidPrefixNumber(Whole(prefix))

\* reduce((int, octet) => (int << 8) + parseInt(octet, 10), 0)
RECURSIVE ReduceOctets(_, _, _)
ReduceOctets(octets, k, int) ==
    IF k > Len(octets) THEN int
    ELSE Only({ ReduceOctets(octets, k + 1, next) :
                  next \in { Add(ShiftLeft(int, 8), ParseInt(octets[k])) } })

\* ipToInt without its final ">>> 0"
ipToIntSigned(ip) == ReduceOctets(Split(ip), 1, Zero)

ipToInt(ip) == UShiftRight(ReduceOctets(Split(ip), 1, Zero), 0)

\* intToIP with the "& 255" of the second and third octets left out
intToIPUnmasked(int) ==
    Only({ JoinDots(<< NumToString(o1), NumToString(o2),
                       NumToString(o3), NumToString(o4) >>) :
             o1 \in { BitAnd(UShiftRight(int, 24), FromInt(255)) },
             o2 \in { UShiftRight(int, 16) },
             o3 \in { UShiftRight(int, 8) },
             o4 \in { BitAnd(int, FromInt(255)) } })

\* the four octets are computed, then turned to text and joined
intToIP(int) ==
    Only({ JoinDots(<< NumToString(o1), NumToString(o2),
                       NumToString(o3), NumToString(o4) >>) :
             o1 \in { BitAnd(UShiftRight(int, 24), FromInt(255)) },
             o2 \in { BitAnd(UShiftRight(int, 16), FromInt(255)) },
             o3 \in { BitAnd(UShiftRight(int, 8), FromInt(255)) },
             o4 \in { BitAnd(int, FromInt(255)) } })

toBinary8(num) == PadStart8(NatToBinary(ToInt(num)))

ipToBinary(ip) ==
    LET octets == Split(ip)
    IN  JoinDots([k \in 1..Len(octets) |-> toBinary8(ParseInt(octets[k]))])

\* (0xFFFFFFFF << (32 - prefix)) >>> 0
PrefixMaskInt(prefix) == UShiftRight(ShiftLeft(AllOnes, 32 - prefix), 0)

prefixToMask(prefix) == intToIP(PrefixMaskInt(prefix))

getNetworkAddress(ip, prefix) ==
    Only({ intToIP(networkInt) :
             networkInt \in { UShiftRight(BitAnd(ipInt, maskInt), 0) :
                                ipInt \in {ipToInt(ip)},
                                maskInt \in {PrefixMaskInt(prefix)} } })

\* (0xFFFFFFFF >>> prefix) >>> 0
HostMaskInt(prefix) == UShiftRight(UShiftRight(AllOnes, prefix), 0)

\* getBroadcastAddress without the host mask: broadcastInt = networkInt
getBroadcastAddressOfNetwork(ip, prefix) ==
    Only({ intToIP(broadcastInt) :
             broadcastInt \in
                 { UShiftRight(networkInt, 0) :
                     networkInt \in { ipToInt(networkAddr) :
                                        networkAddr \in {getNetworkAddress(ip, prefix)} } } })

getBroadcastAddress(ip, prefix) ==
    Only({ intToIP(broadcastInt) :
             broadcastInt \in
                 { UShiftRight(BitOr(networkInt, hostMask), 0) :
                     networkInt \in { ipToInt(networkAddr) :
                                        networkAddr \in {getNetworkAddress(ip, prefix)} },
                     hostMask \in {HostMaskInt(prefix)} } })

getFirstUsable(networkAddr) ==
    Only({ intToIP(firstInt) :
             firstInt \in { UShiftRight(Add(networkInt, One), 0) :
                              networkInt \in {ipToInt(networkAddr)} } })

getLastUsable(broadcastAddr) ==
    Only({ intToIP(lastInt) :
             lastInt \in { UShiftRight(Sub(broadcastInt, One), 0) :
                             broadcastInt \in {ipToInt(broadcastAddr)} } })

\* getUsableHosts without its "prefix >= 31" branch
getUsableHostsUnguarded(prefix) == Sub(MathPow2(32 - prefix), FromInt(2))

getUsableHosts(prefix) ==
    IF prefix >= 31 THEN Zero
    ELSE Sub(MathPow2(32 - prefix), FromInt(2))

getTotalAddresses(prefix) == MathPow2(32 - prefix)

\* getNetworkClass with class A reaching up to 127
getNetworkClassLoopback(ip) ==
    Only({ IF Ge(firstOctet, FromInt(1)) /\ Le(firstOctet, FromInt(127)) THEN "A"
           ELSE IF Ge(firstOctet, FromInt(128)) /\ Le(firstOctet, FromInt(191)) THEN "B"
           ELSE IF Ge(firstOctet, FromInt(192)) /\ Le(firstOctet, FromInt(223)) THEN "C"
           ELSE IF Ge(firstOctet, FromInt(224)) /\ Le(firstOctet, FromInt(239))
                THEN "D (Multicast)"
           ELSE IF Ge(firstOctet, FromInt(240)) /\ Le(firstOctet, FromInt(255))
                THEN "E (Reserved)"
           ELSE "Unknown" :
             firstOctet \in {ParseInt(Split(ip)[1])} })

getNetworkClass(ip) ==
    Only({ IF Ge(firstOctet, FromInt(1)) /\ Le(firstOctet, FromInt(126)) THEN "A"
           ELSE IF Ge(firstOctet, FromInt(128)) /\ Le(firstOctet, FromInt(191)) THEN "B"
           ELSE IF Ge(firstOctet, FromInt(192)) /\ Le(firstOctet, FromInt(223)) THEN "C"
           ELSE IF Ge(firstOctet, FromInt(224)) /\ Le(firstOctet, FromInt(239))
                THEN "D (Multicast)"
           ELSE IF Ge(firstOctet, FromInt(240)) /\ Le(firstOctet, FromInt(255))
                THEN "E (Reserved)"
           ELSE "Unknown" :
             firstOctet \in {ParseInt(Split(ip)[1])} })

\* isPrivateIP comparing with "<" and ">" in place of "<=" and ">="
isPrivateIPExclusive(ip) ==
    Only({ IF Lt(ipToInt("10.0.0.0"), ipInt) /\ Lt(ipInt, ipToInt("10.255.255.255"))
           THEN TRUE
           ELSE IF Lt(ipToInt("172.16.0.0"), ipInt)
                   /\ Lt(ipInt, ipToInt("172.31.255.255"))
           THEN TRUE
           ELSE IF Lt(ipToInt("192.168.0.0"), ipInt)
                   /\ Lt(ipInt, ipToInt("192.168.255.255"))
           THEN TRUE
           ELSE FALSE :
             ipInt \in {ipToInt(ip)} })

isPrivateIP(ip) ==
    Only({ IF Ge(ipInt, ipToInt("10.0.0.0")) /\ Le(ipInt, ipToInt("10.255.255.255"))
           THEN TRUE
           ELSE IF Ge(ipInt, ipToInt("172.16.0.0"))
                   /\ Le(ipInt, ipToInt("172.31.255.255"))
           THEN TRUE
           ELSE IF Ge(ipInt, ipToInt("192.168.0.0"))
                   /\ Le(ipInt, ipToInt("192.168.255.255"))
           THEN TRUE
           ELSE FALSE :
             ipInt \in {ipToInt(ip)} })

\* the absent (null) newPrefix, and a given one
Null == <<>>
Some(n) == <<n>>

\* the summary object of a call that returned none
NoSummary ==
    [ baseNetwork |-> "", basePrefix |-> 0, newPrefix |-> Null,
      effectivePrefix |-> 0, subnetMask |-> "", totalSubnets |-> 0,
      hostsPerSubnet |-> Zero, totalAddresses |-> Zero, networkClass |-> "",
      isPrivate |-> FALSE, subnets |-> <<>> ]

\* what a call returned or threw: one field for each type of result
NoResult ==
    [threw |-> FALSE, error |-> "", bool |-> FALSE, num |-> Zero,
     text |-> "", subnets |-> <<>>, summary |-> NoSummary]

ReturnedBool(v) == [NoResult EXCEPT !.bool = v]
ReturnedNum(v) == [NoResult EXCEPT !.num = v]
ReturnedText(v) == [NoResult EXCEPT !.text = v]
ReturnedSubnets(v) == [NoResult EXCEPT !.subnets = v]
ReturnedSummary(v) == [NoResult EXCEPT !.summary = v]
Thrown(msg) == [NoResult EXCEPT !.threw = TRUE, !.error = msg]

\* one subnet object of calculateSubnets
SubnetObject(number, networkAddr, broadcastAddr, prefix) ==
    [ subnetNumber     |-> number,
      networkAddress   |-> networkAddr,
      broadcastAddress |-> broadcastAddr,
      firstUsable      |-> getFirstUsable(networkAddr),
      lastUsable       |-> getLastUsable(broadcastAddr),
      usableHosts      |-> getUsableHosts(prefix),
      subnetMask       |-> prefixToMask(prefix),
      prefix           |-> prefix,
      totalAddresses   |-> getTotalAddresses(prefix) ]

\* the single-network case taken for a null newPrefix only
IsSingleNetworkNullOnly(basePrefix, newPrefix) == newPrefix = Null

\* the single-network case: newPrefix === null || newPrefix === basePrefix
IsSingleNetwork(basePrefix, newPrefix) ==
    newPrefix = Null \/ newPrefix = Some(basePrefix)

SingleNetwork(baseIP, basePrefix) ==
    Only({ << SubnetObject(1, networkAddr, broadcastAddr, basePrefix) >> :
             networkAddr \in {getNetworkAddress(baseIP, basePrefix)},
             broadcastAddr \in {getBroadcastAddress(baseIP, basePrefix)} })

\* the body of "for (let i = 0; i < numSubnets; i++)": the subnet pushed in
\* round i
SubnetLoop(baseNetworkInt, subnetSize, newPrefix, i) ==
    Only({ Only({ SubnetObject(i + 1, networkAddr, broadcastAddr, newPrefix) :
                    networkAddr \in {intToIP(subnetNetworkInt)},
                    broadcastAddr \in
                        { intToIP(UShiftRight(
                              Sub(Add(subnetNetworkInt, subnetSize), One), 0)) } }) :
             subnetNetworkInt \in
                 { UShiftRight(Add(baseNetworkInt, Mul(FromInt(i), subnetSize)), 0) } })

\* the rounds i = 0 .. numSubnets - 1 push the subnets in this order
SplitNetwork(baseIP, basePrefix, newPrefix) ==
    Only({ [ k \in 1..ToInt(numSubnets) |->
               SubnetLoop(baseNetworkInt, subnetSize, newPrefix, k - 1) ] :
             baseNetworkInt \in { ipToInt(baseNetworkAddr) :
                                    baseNetworkAddr \in
                                        {getNetworkAddress(baseIP, basePrefix)} },
             subnetSize \in {MathPow2(32 - newPrefix)},
             numSubnets \in {MathPow2(newPrefix - basePrefix)} })

\* calculateSubnets without its check of baseIP
calculateSubnetsAnyAddress(baseIP, basePrefix, newPrefix) ==
    IF ~isValidPrefix(basePrefix) THEN Thrown("Invalid base prefix")
    ELSE IF IsSingleNetwork(basePrefix, newPrefix)
         THEN ReturnedSubnets(SingleNetwork(baseIP, basePrefix))
    ELSE IF ~isValidPrefix(newPrefix[1]) THEN Thrown("Invalid new prefix")
    ELSE IF newPrefix[1] <= basePrefix
         THEN Thrown("New prefix must be larger than base prefix")
    ELSE ReturnedSubnets(SplitNetwork(baseIP, basePrefix, newPrefix[1]))

\* calculateSubnets throwing the error of an invalid new prefix for a new
\* prefix that is not larger, too
calculateSubnetsSameError(baseIP, basePrefix, newPrefix) ==
    IF ~isValidIP(baseIP) THEN Thrown("Invalid IP address")
    ELSE IF ~isValidPrefix(basePrefix) THEN Thrown("Invalid base prefix")
    ELSE IF IsSingleNetwork(basePrefix, newPrefix)
         THEN ReturnedSubnets(SingleNetwork(baseIP, basePrefix))
    ELSE IF ~isValidPrefix(newPrefix[1]) THEN Thrown("Invalid new prefix")
    ELSE IF newPrefix[1] <= basePrefix THEN Thrown("Invalid new prefix")
    ELSE ReturnedSubnets(SplitNetwork(baseIP, basePrefix, newPrefix[1]))

\* calculateSubnets comparing newPrefix with basePrefix before validating it
calculateSubnetsCompareFirst(baseIP, basePrefix, newPrefix) ==
    IF ~isValidIP(baseIP) THEN Thrown("Invalid IP address")
    ELSE IF ~isValidPrefix(basePrefix) THEN Thrown("Invalid base prefix")
    ELSE IF IsSingleNetwork(basePrefix, newPrefix)
         THEN ReturnedSubnets(SingleNetwork(baseIP, basePrefix))
    ELSE IF newPrefix[1] <= basePrefix
         THEN Thrown("New prefix must be larger than base prefix")
    ELSE IF ~isValidPrefix(newPrefix[1]) THEN Thrown("Invalid new prefix")
    ELSE ReturnedSubnets(SplitNetwork(baseIP, basePrefix, newPrefix[1]))

calculateSubnets(baseIP, basePrefix, newPrefix) ==
    IF ~isValidIP(baseIP) THEN Thrown("Invalid IP address")
    ELSE IF ~isValidPrefix(basePrefix) THEN Thrown("Invalid base prefix")
    ELSE IF IsSingleNetwork(basePrefix, newPrefix)
         THEN ReturnedSubnets(SingleNetwork(baseIP, basePrefix))
    ELSE IF ~isValidPrefix(newPrefix[1]) THEN Thrown("Invalid new prefix")
    ELSE IF newPrefix[1] <= basePrefix
         THEN Thrown("New prefix must be larger than base prefix")
    ELSE ReturnedSubnets(SplitNetwork(baseIP, basePrefix, newPrefix[1]))

\* the effective prefix taken to be the base prefix whatever newPrefix is
effectivePrefixOfBase(basePrefix, newPrefix) == basePrefix

\* newPrefix || basePrefix: basePrefix for the falsy newPrefix null and 0
effectivePrefix(basePrefix, newPrefix) ==
    IF newPrefix = Null \/ newPrefix[1] = 0 THEN basePrefix ELSE newPrefix[1]

\* the object returned once calculateSubnets has returned subnets
SummaryObject(baseIP, basePrefix, newPrefix, effPrefix, subnets) ==
    [ baseNetwork     |-> getNetworkAddress(baseIP, basePrefix),
      basePrefix      |-> basePrefix,
      newPrefix       |-> newPrefix,
      effectivePrefix |-> effPrefix,
      subnetMask      |-> prefixToMask(effPrefix),
      totalSubnets    |-> Len(subnets),
      hostsPerSubnet  |-> getUsableHosts(effPrefix),
      totalAddresses  |-> getTotalAddresses(effPrefix),
      networkClass    |-> getNetworkClass(baseIP),
      isPrivate       |-> isPrivateIP(baseIP),
      subnets         |-> subnets ]

\* an error thrown by calculateSubnets leaves getCalculationSummary as it is
getCalculationSummary(baseIP, basePrefix, newPrefix) ==
    Only({ IF calculated.threw THEN calculated
           ELSE ReturnedSummary(SummaryObject(baseIP, basePrefix, newPrefix,
                                              effPrefix, calculated.subnets)) :
             effPrefix \in {effectivePrefix(basePrefix, newPrefix)},
             calculated \in {calculateSubnets(baseIP, basePrefix, newPrefix)} })

-----------------------------------------------------------------------------
(* The inputs the engine is called with.                                   *)

ValidIPs ==
    { "0.0.0.0", "0.0.0.1", "1.2.3.4", "8.8.8.8", "10.0.0.1", "127.0.0.1",
      "128.0.0.0", "170.85.170.85", "172.16.0.0", "192.168.1.0",
      "192.168.1.100", "223.255.255.255", "224.0.0.5", "85.170.85.170",
      "255.255.255.254", "255.255.255.255" }

InvalidIPs ==
    { "256.1.1.1", "192.168.01.0", "1.2.3", "1.2.3.4.5", "", "a.b.c.d",
      "1.2.3.-4", " 1.2.3.4", "1..2.3", "1.2.3.4a" }

IPTexts == ValidIPs \cup InvalidIPs

\* more text that is no address, for isValidIP: signs, spaces, leading
\* zeros, exponents, radix prefixes, empty and out-of-range segments
MalformedIPs ==
    { "+1.2.3.4", "1.2.3.4 ", "1.2. 3.4", "1.2.3.", ".1.2.3", "1.2.3.4.",
      "0.0.0.00", "01.2.3.4", "1.2.3.04", "1e1.2.3.4", "1.2.3.0x4",
      "-0.0.0.0", "-1.2.3.4", "999.1.1.1", "1.2.3.256", "1.2.3.1000",
      "1,2,3,4", "1234", "...", "1.2.3.4.5.6" }

\* octets and the addresses made of them, for the conversions
OctetTexts == {"0", "1", "10", "127", "128", "255"}

GridIPs ==
    { a \o "." \o b \o "." \o c \o "." \o d :
        a \in OctetTexts, b \in OctetTexts, c \in OctetTexts, d \in OctetTexts }

Prefixes == 0..32

\* prefix arguments, one below and one above the valid range included
PrefixInputs == -1..33

\* the newPrefix arguments tried with a base prefix: null, and every prefix
\* input that splits into at most 2^MaxSplitBits subnets
NewPrefixInputs(basePrefix) ==
    {Null} \cup { Some(t) : t \in { u \in PrefixInputs : u - basePrefix <= MaxSplitBits } }

\* the addresses at the bounds of the classes: first octets 0, 1, 126, 127,
\* 128, 191, 192, 223, 224, 239, 240 and 255
ClassBoundIPs ==
    { "0.1.2.3", "1.0.0.0", "126.255.255.255", "127.0.0.1", "128.0.0.0",
      "191.255.255.255", "192.0.0.0", "223.255.255.255", "224.0.0.0",
      "239.255.255.255", "240.0.0.0", "255.255.255.255" }

\* the bounds of the three private ranges and the addresses next to them
PrivateBoundIPs ==
    { "10.0.0.0", "10.255.255.255", "172.16.0.0", "172.31.255.255",
      "192.168.0.0", "192.168.255.255", "172.20.1.1" }

PrivateNeighbourIPs ==
    { "9.255.255.255", "11.0.0.0", "172.15.255.255", "172.32.0.0",
      "192.167.255.255", "192.169.0.0" }

\* the base addresses getCalculationSummary is called with
SummaryIPs ==
    { "0.0.0.0", "10.0.0.1", "127.0.0.1", "172.16.0.0", "192.168.1.0",
      "224.0.0.5", "255.255.255.255", "256.1.1.1" }

\* 16-bit halves whose combinations are the integers intToIP is called with:
\* every octet boundary, and 2^15 in the high half for the values from 2^31 on
UintHalves == {0, 1, 255, 256, Two15 - 1, Two15, Two16 - 1}

Uint32Inputs == { Num(h, l) : h \in UintHalves, l \in UintHalves }

\* the numbers isValidPrefix is called with: NaN and -1.5, -1, ... , 33.5
PrefixValues == {NaNValue} \cup { Halves(h) : h \in -3..67 }

NoCall ==
    [fn |-> "none", ip |-> "", prefix |-> 0, newPrefix |-> Null, int |-> Zero,
     value |-> Whole(0)]

Call(fn, ip, prefix, newPrefix) ==
    [NoCall EXCEPT !.fn = fn, !.ip = ip, !.prefix = prefix,
                   !.newPrefix = newPrefix]

\* a call whose argument is a number
CallOnInt(fn, int) == [NoCall EXCEPT !.fn = fn, !.int = int]
CallOnValue(fn, value) == [NoCall EXCEPT !.fn = fn, !.value = value]

-----------------------------------------------------------------------------
(* The application controller: its state object, the page elements it      *)
(* writes, the preference storage, and the functions that change them.     *)
(* A function of the controller is written as the value it leaves in what  *)
(* it changes, from the values it found.                                   *)

\* "const state = { mode: 'beginner', theme: 'light', lastCalculation: null }"
InitialState == [mode |-> "beginner", theme |-> "light", lastCalculation |-> Null]

\* the elements before init: the results section, the learning panel and
\* the visual components are hidden and empty.  results stands for the
\* outputs, cards and table rows displayResults writes, explanationContent
\* and visualizations for what displayLearningContent generates: <<>> for
\* none, else the objects they were generated from.
InitialElements ==
    [ resultsSectionHidden  |-> TRUE,
      learningPanelHidden   |-> TRUE,
      visualComponentsHidden |-> TRUE,
      results               |-> <<>>,
      explanationContent    |-> <<>>,
      visualizations        |-> <<>>,
      modeToggle            |-> "",
      themeToggle           |-> "",
      dataTheme             |-> "" ]

\* s.trim()
Trim(s) ==
    LET kept == { i \in 1..Len(s) : ~IsSpace(CharAt(s, i)) }
    IN  IF kept = {} THEN ""
        ELSE SubSeq(s, CHOOSE i \in kept : \A j \in kept : i <= j,
                       CHOOSE i \in kept : \A j \in kept : i >= j)

\* the pieces of s between the occurrences of the character c
SplitOn(s, c) ==
    LET at == { i \in 1..Len(s) : CharAt(s, i) = c }
        n == Cardinality(at)
        At(k) == IF k = 0 THEN 0 ELSE IF k > n THEN Len(s) + 1
                 ELSE CHOOSE d \in at : Cardinality({ e \in at : e < d }) = k - 1
    IN  [ k \in 1..(n + 1) |-> SubSeq(s, At(k - 1) + 1, At(k) - 1) ]

\* JSON.stringify({ mode: mode, theme: theme })
JSONStringify(mode, theme) ==
    "{\"mode\":\"" \o mode \o "\",\"theme\":\"" \o theme \o "\"}"

\* a JSON string literal: text between two double quotes
IsQuoted(s) == Len(s) >= 2 /\ CharAt(s, 1) = "\"" /\ CharAt(s, Len(s)) = "\""
Unquote(s) == SubSeq(s, 2, Len(s) - 1)

\* one "key":"value" member of a JSON object
IsMember(piece) ==
    LET kv == SplitOn(piece, ":")
    IN  Len(kv) = 2 /\ IsQuoted(kv[1]) /\ IsQuoted(kv[2])

\* the value of the member key of the members, "" when there is none
\* (an undefined and an empty property are both falsy for "||")
MemberValue(members, key) ==
    LET found == { k \in 1..Len(members) :
                     Unquote(SplitOn(members[k], ":")[1]) = key }
    IN  IF found = {} THEN ""
        ELSE Unquote(SplitOn(members[CHOOSE k \in found : \A j \in found : k >= j],
                             ":")[2])

\* JSON.parse(text) of an object of string members: threw for a SyntaxError
JSONParse(text) ==
    IF Len(text) < 2 \/ CharAt(text, 1) # "{" \/ CharAt(text, Len(text)) # "}"
    THEN [threw |-> TRUE, mode |-> "", theme |-> ""]
    ELSE IF Len(text) = 2
    THEN [threw |-> FALSE, mode |-> "", theme |-> ""]
    ELSE Only({ IF \E k \in 1..Len(members) : ~IsMember(members[k])
                THEN [threw |-> TRUE, mode |-> "", theme |-> ""]
                ELSE [threw |-> FALSE,
                      mode  |-> MemberValue(members, "mode"),
                      theme |-> MemberValue(members, "theme")] :
                  members \in {SplitOn(SubSeq(text, 2, Len(text) - 1), ",")} })

\* loadPreferences: storage is <<>> with no item, else <<the item>>
loadPreferences(st, storage) ==
    IF storage = <<>> \/ storage[1] = "" THEN st
    ELSE Only({ IF preferences.threw THEN st
                ELSE [st EXCEPT
                        !.mode  = IF preferences.mode # "" THEN preferences.mode
                                  ELSE "beginner",
                        !.theme = IF preferences.theme # "" THEN preferences.theme
                                  ELSE "light"] :
                  preferences \in {JSONParse(storage[1])} })

\* savePreferences storing the mode alone
savePreferencesModeOnly(st, storage, stored) ==
    IF stored THEN << JSONStringify(st.mode, "") >> ELSE storage

\* savePreferences: the storage after setItem, which stored the item or threw
savePreferences(st, storage, stored) ==
    IF stored THEN << JSONStringify(st.mode, st.theme) >> ELSE storage

applyTheme(els, theme) ==
    IF theme = "dark"
    THEN [els EXCEPT !.dataTheme = "dark", !.themeToggle = "#icon-sun"]
    ELSE [els EXCEPT !.dataTheme = "", !.themeToggle = "#icon-moon"]

displayResults(els, summary) == [els EXCEPT !.results = << summary >>]

displayLearningContent(els, summary, binary) ==
    [els EXCEPT !.explanationContent = << [summary |-> summary, binary |-> binary] >>,
                !.learningPanelHidden = FALSE,
                !.visualComponentsHidden = FALSE,
                !.visualizations = << [summary |-> summary, binary |-> binary] >>]

\* applyMode showing the learning content without regenerating it
applyModeShowOnly(st, els, mode) ==
    IF mode = "beginner"
    THEN IF st.lastCalculation # Null
         THEN [els EXCEPT !.modeToggle = "Beginner Mode",
                          !.learningPanelHidden = FALSE,
                          !.visualComponentsHidden = FALSE]
         ELSE [els EXCEPT !.modeToggle = "Beginner Mode"]
    ELSE [els EXCEPT !.modeToggle = "Expert Mode",
                     !.learningPanelHidden = TRUE,
                     !.visualComponentsHidden = TRUE]

applyMode(st, els, mode) ==
    IF mode = "beginner"
    THEN IF st.lastCalculation # Null
         THEN displayLearningContent(
                  [els EXCEPT !.modeToggle = "Beginner Mode",
                              !.learningPanelHidden = FALSE,
                              !.visualComponentsHidden = FALSE],
                  st.lastCalculation[1].summary, st.lastCalculation[1].binary)
         ELSE [els EXCEPT !.modeToggle = "Beginner Mode"]
    ELSE [els EXCEPT !.modeToggle = "Expert Mode",
                     !.learningPanelHidden = TRUE,
                     !.visualComponentsHidden = TRUE]

\* what a handler leaves: the state object, the elements, the alert shown
Outcome(st, els, message) == [state |-> st, elements |-> els, alert |-> message]

\* showError forgetting the last calculation and its results
showErrorClearing(st, els, message) ==
    Outcome([st EXCEPT !.lastCalculation = Null],
            [els EXCEPT !.results = <<>>], message)

\* showError(message): an alert, nothing else
showError(st, els, message) == Outcome(st, els, "Error: " \o message)

\* the number parseInt returned, as the argument of isValidPrefix
PrefixValueOf(num) == IF num.nan THEN NaNValue ELSE Whole(ToInt(num))

getBinaryBreakdown(ip, prefix) ==
    Only({ [ ip      |-> [ decimal |-> ip, octets |-> octets,
                           binary |-> [k \in 1..Len(octets) |-> toBinary8(octets[k])],
                           fullBinary |-> ipToBinary(ip) ],
             mask    |-> [ decimal |-> mask, octets |-> maskOctets,
                           binary |-> [k \in 1..Len(maskOctets) |->
                                         toBinary8(maskOctets[k])],
                           fullBinary |-> ipToBinary(mask), prefix |-> prefix ],
             network |-> [ decimal |-> networkAddr, octets |-> networkOctets,
                           binary |-> [k \in 1..Len(networkOctets) |->
                                         toBinary8(networkOctets[k])],
                           fullBinary |-> ipToBinary(networkAddr) ],
             networkBits |-> prefix,
             hostBits    |-> 32 - prefix ] :
           octets \in { [k \in 1..Len(parts) |-> ParseInt(parts[k])] :
                          parts \in {Split(ip)} },
           mask \in {prefixToMask(prefix)},
           maskOctets \in { [k \in 1..Len(parts) |-> ParseInt(parts[k])] :
                              parts \in {Split(prefixToMask(prefix))} },
           networkAddr \in {getNetworkAddress(ip, prefix)},
           networkOctets \in { [k \in 1..Len(parts) |-> ParseInt(parts[k])] :
                                 parts \in {Split(getNetworkAddress(ip, prefix))} } })

\* lines 147-166 of handleCalculate: the calculation and its display, or
\* the catch of what the engine threw
PerformCalculation(st, els, baseIP, basePrefix, newPrefix) ==
    Only({ IF calculated.threw
           THEN showError(st, els, "Calculation error: " \o calculated.error)
           ELSE Only({ Outcome(
                         [st EXCEPT !.lastCalculation =
                                      << [summary |-> calculated.summary,
                                          binary |-> binary] >>],
                         [ (IF st.mode = "beginner"
                            THEN displayLearningContent(
                                     displayResults(els, calculated.summary),
                                     calculated.summary, binary)
                            ELSE displayResults(els, calculated.summary))
                           EXCEPT !.resultsSectionHidden = FALSE ],
                         "") :
                       binary \in {getBinaryBreakdown(baseIP, basePrefix)} }) :
             calculated \in {getCalculationSummary(baseIP, basePrefix, newPrefix)} })

\* handleCalculate on the values of the three input elements
handleCalculate(st, els, baseIPValue, basePrefixValue, newPrefixValue) ==
    Only({ IF ~isValidIP(baseIP)
           THEN showError(st, els, "Invalid IP address. Please enter a valid IPv4 address (e.g., 192.168.1.0)")
           ELSE IF ~isValidPrefixNumber(PrefixValueOf(basePrefix))
           THEN showError(st, els, "Invalid base prefix. Please enter a value between 8 and 30.")
           ELSE IF newPrefix # Null /\ ~isValidPrefixNumber(PrefixValueOf(newPrefix[1]))
           THEN showError(st, els, "Invalid new prefix. Please enter a value between 8 and 30, or leave empty.")
           ELSE IF newPrefix # Null /\ Le(newPrefix[1], basePrefix)
           THEN showError(st, els, "New prefix must be larger than base prefix to split the network.")
           ELSE PerformCalculation(st, els, baseIP, ToInt(basePrefix),
                                   IF newPrefix = Null THEN Null
                                   ELSE Some(ToInt(newPrefix[1]))) :
             baseIP \in {Trim(baseIPValue)},
             basePrefix \in {ParseInt(basePrefixValue)},
             newPrefix \in { IF trimmed # "" THEN << ParseInt(trimmed) >> ELSE Null :
                               trimmed \in {Trim(newPrefixValue)} } })

\* no file: what an export that was refused leaves
NoDownload == <<>>

\* the guard of handleExportCSV and handleExportPDF left out
handleExportUnguarded(st, kind, timestamp) ==
    [ alert |-> "", success |-> "Results exported to " \o kind \o " successfully!",
      download |-> << [ kind |-> kind,
                        filename |-> "subnet-results-" \o timestamp \o "." \o kind,
                        summary |-> IF st.lastCalculation = Null THEN NoSummary
                                    ELSE st.lastCalculation[1].summary ] >> ]

\* handleExportCSV (kind "csv") and handleExportPDF (kind "pdf"): the file
\* the exporter downloads is given by the summary it serialises
handleExport(st, kind, timestamp) ==
    IF st.lastCalculation = Null
    THEN [ alert |-> "Error: No calculation results to export. Please calculate first.",
           success |-> "", download |-> NoDownload ]
    ELSE [ alert |-> "", success |-> "Results exported to " \o kind \o " successfully!",
           download |-> << [ kind |-> kind,
                             filename |-> "subnet-results-" \o timestamp \o "." \o kind,
                             summary |-> st.lastCalculation[1].summary ] >> ]

\* what the storage holds when the page is loaded: no item, the items the
\* controller writes, an item of another version, and text that is not JSON
StoredItems ==
    { <<>>, << JSONStringify("expert", "dark") >>,
      << "{\"mode\":\"advanced\"}" >>, << "not json" >> }

\* the values of the base IP, base prefix and new prefix inputs at a click
\* on Calculate: inputs that calculate (one network, a split into two
\* subnets typed with spaces around the address), and inputs
\* with each violation: the address, the base prefix (out of range, empty),
\* the new prefix (out of range, no number), a new prefix that is smaller,
\* a new prefix that is equal, and several violations at once
CalculateInputs ==
    { << "192.168.1.0", "24", "" >>,
      << " 10.0.0.1 ", "24", "25" >>,
      << "256.1.1.1", "24", "" >>,
      << "1.2.3", "", "33" >>,
      << "192.168.1.0", "33", "" >>,
      << "192.168.1.0", "", "26" >>,
      << "192.168.1.0", "24", "33" >>,
      << "192.168.1.0", "24", "x" >>,
      << "192.168.1.0", "24", "23" >>,
      << "192.168.1.0", "24", "24" >>,
      << "10.0.0.1", "33", "23" >> }

\* the day of an export, of "new Date().toISOString().split('T')[0]"
Timestamps == { "2024-01-01" }

\* the handler run last and the values it read
NoEvent ==
    [ handler |-> "init", baseIP |-> "", basePrefix |-> "", newPrefix |-> "",
      timestamp |-> "" ]

-----------------------------------------------------------------------------
(* The state machine: one action per engine function, each a whole call.   *)
(* The engine keeps no state between calls, so a behaviour is one call on   *)
(* inputs drawn from the sets above.  call records the call, ret what it   *)
(* returned or threw.  The application is not loaded and takes no step.    *)

Init ==
    /\ call = NoCall
    /\ ret = NoResult
    /\ state = InitialState
    /\ elements = InitialElements
    /\ localStorage = <<>>
    /\ lastSave = "none"
    /\ event = NoEvent
    /\ alert = ""
    /\ success = ""
    /\ download = NoDownload

CallIsValidIP ==
    /\ call = NoCall
    /\ UNCHANGED appVars
    /\ \E ip \in IPTexts \cup MalformedIPs :
        /\ call' = Call("isValidIP", ip, 0, Null)
        /\ ret' = ReturnedBool(isValidIP(ip))

CallIsValidPrefix ==
    /\ call = NoCall
    /\ UNCHANGED appVars
    /\ \E value \in PrefixValues :
        /\ call' = CallOnValue("isValidPrefix", value)
        /\ ret' = ReturnedBool(isValidPrefixNumber(value))

CallIpToInt ==
    /\ call = NoCall
    /\ UNCHANGED appVars
    /\ \E ip \in ValidIPs \cup GridIPs \cup InvalidIPs :
        /\ call' = Call("ipToInt", ip, 0, Null)
        /\ ret' = ReturnedNum(ipToInt(ip))

CallIntToIP ==
    /\ call = NoCall
    /\ UNCHANGED appVars
    /\ \E int \in Uint32Inputs :
        /\ call' = CallOnInt("intToIP", int)
        /\ ret' = ReturnedText(intToIP(int))

CallPrefixToMask ==
    /\ call = NoCall
    /\ UNCHANGED appVars
    /\ \E p \in Prefixes :
        /\ call' = Call("prefixToMask", "", p, Null)
        /\ ret' = ReturnedText(prefixToMask(p))

CallGetNetworkAddress ==
    /\ call = NoCall
    /\ UNCHANGED appVars
    /\ \E ip \in IPTexts, p \in Prefixes :
        /\ call' = Call("getNetworkAddress", ip, p, Null)
        /\ ret' = ReturnedText(getNetworkAddress(ip, p))

CallGetBroadcastAddress ==
    /\ call = NoCall
    /\ UNCHANGED appVars
    /\ \E ip \in IPTexts, p \in Prefixes :
        /\ call' = Call("getBroadcastAddress", ip, p, Null)
        /\ ret' = ReturnedText(getBroadcastAddress(ip, p))

CallGetUsableHosts ==
    /\ call = NoCall
    /\ UNCHANGED appVars
    /\ \E p \in Prefixes :
        /\ call' = Call("getUsableHosts", "", p, Null)
        /\ ret' = ReturnedNum(getUsableHosts(p))

CallGetTotalAddresses ==
    /\ call = NoCall
    /\ UNCHANGED appVars
    /\ \E p \in Prefixes :
        /\ call' = Call("getTotalAddresses", "", p, Null)
        /\ ret' = ReturnedNum(getTotalAddresses(p))

CallGetNetworkClass ==
    /\ call = NoCall
    /\ UNCHANGED appVars
    /\ \E ip \in ValidIPs \cup ClassBoundIPs :
        /\ call' = Call("getNetworkClass", ip, 0, Null)
        /\ ret' = ReturnedText(getNetworkClass(ip))

CallIsPrivateIP ==
    /\ call = NoCall
    /\ UNCHANGED appVars
    /\ \E ip \in ValidIPs \cup PrivateBoundIPs \cup PrivateNeighbourIPs :
        /\ call' = Call("isPrivateIP", ip, 0, Null)
        /\ ret' = ReturnedBool(isPrivateIP(ip))

CallGetCalculationSummary ==
    /\ call = NoCall
    /\ UNCHANGED appVars
    /\ \E ip \in SummaryIPs, b \in PrefixInputs :
        \E t \in NewPrefixInputs(b) :
            /\ call' = Call("getCalculationSummary", ip, b, t)
            /\ ret' = getCalculationSummary(ip, b, t)

CallCalculateSubnets ==
    /\ call = NoCall
    /\ UNCHANGED appVars
    /\ \E ip \in IPTexts, b \in PrefixInputs :
        \E t \in NewPrefixInputs(b) :
            /\ call' = Call("calculateSubnets", ip, b, t)
            /\ ret' = calculateSubnets(ip, b, t)

Next ==
    \/ CallIsValidIP
    \/ CallIsValidPrefix
    \/ CallIpToInt
    \/ CallIntToIP
    \/ CallPrefixToMask
    \/ CallGetNetworkAddress
    \/ CallGetBroadcastAddress
    \/ CallGetUsableHosts
    \/ CallGetTotalAddresses
    \/ CallCalculateSubnets
    \/ CallGetNetworkClass
    \/ CallIsPrivateIP
    \/ CallGetCalculationSummary

Spec == Init /\ [][Next]_vars

-----------------------------------------------------------------------------
(* The state machine of the application: Init is the page after init(),    *)
(* then one action per handler the user can trigger.  event records the    *)
(* handler run last and what it read; alert, success and download are what *)
(* that handler showed and downloaded.                                     *)

\* toggleMode and toggleTheme: the state object, the elements and the
\* storage they leave
toggleMode(st, els, storage, stored) ==
    Only({ [ state |-> toggled,
             elements |-> applyMode(toggled, els, toggled.mode),
             localStorage |-> savePreferences(toggled, storage, stored) ] :
           toggled \in { [st EXCEPT !.mode = IF st.mode = "beginner" THEN "expert"
                                             ELSE "beginner"] } })

toggleTheme(st, els, storage, stored) ==
    Only({ [ state |-> toggled,
             elements |-> applyTheme(els, toggled.theme),
             localStorage |-> savePreferences(toggled, storage, stored) ] :
           toggled \in { [st EXCEPT !.theme = IF st.theme = "light" THEN "dark"
                                              ELSE "light"] } })

\* init(): loadPreferences, applyTheme(state.theme), applyMode(state.mode)
AppInit ==
    /\ call = NoCall
    /\ ret = NoResult
    /\ \E saved \in StoredItems :
        /\ localStorage = saved
        /\ state = loadPreferences(InitialState, saved)
        /\ elements = applyMode(loadPreferences(InitialState, saved),
                                applyTheme(InitialElements,
                                           loadPreferences(InitialState, saved).theme),
                                loadPreferences(InitialState, saved).mode)
    /\ lastSave = "none"
    /\ event = NoEvent
    /\ alert = ""
    /\ success = ""
    /\ download = NoDownload

ClickCalculate ==
    \E values \in CalculateInputs :
        \E out \in { handleCalculate(state, elements, values[1], values[2],
                                     values[3]) } :
            /\ state' = out.state
            /\ elements' = out.elements
            /\ alert' = out.alert
            /\ success' = ""
            /\ download' = NoDownload
            /\ event' = [ NoEvent EXCEPT !.handler = "handleCalculate",
                                         !.baseIP = values[1],
                                         !.basePrefix = values[2],
                                         !.newPrefix = values[3] ]
            /\ UNCHANGED <<localStorage, lastSave, call, ret>>

ClickModeToggle ==
    \E stored \in BOOLEAN :
        \E out \in { toggleMode(state, elements, localStorage, stored) } :
            /\ state' = out.state
            /\ elements' = out.elements
            /\ localStorage' = out.localStorage
            /\ lastSave' = IF stored THEN "saved" ELSE "failed"
            /\ alert' = ""
            /\ success' = ""
            /\ download' = NoDownload
            /\ event' = [NoEvent EXCEPT !.handler = "toggleMode"]
            /\ UNCHANGED <<call, ret>>

ClickThemeToggle ==
    \E stored \in BOOLEAN :
        \E out \in { toggleTheme(state, elements, localStorage, stored) } :
            /\ state' = out.state
            /\ elements' = out.elements
            /\ localStorage' = out.localStorage
            /\ lastSave' = IF stored THEN "saved" ELSE "failed"
            /\ alert' = ""
            /\ success' = ""
            /\ download' = NoDownload
            /\ event' = [NoEvent EXCEPT !.handler = "toggleTheme"]
            /\ UNCHANGED <<call, ret>>

ClickExportCSV ==
    \E timestamp \in Timestamps :
        \E out \in { handleExport(state, "csv", timestamp) } :
            /\ alert' = out.alert
            /\ success' = out.success
            /\ download' = out.download
            /\ event' = [ NoEvent EXCEPT !.handler = "handleExportCSV",
                                         !.timestamp = timestamp ]
            /\ UNCHANGED <<state, elements, localStorage, lastSave, call, ret>>

ClickExportPDF ==
    \E timestamp \in Timestamps :
        \E out \in { handleExport(state, "pdf", timestamp) } :
            /\ alert' = out.alert
            /\ success' = out.success
            /\ download' = out.download
            /\ event' = [ NoEvent EXCEPT !.handler = "handleExportPDF",
                                         !.timestamp = timestamp ]
            /\ UNCHANGED <<state, elements, localStorage, lastSave, call, ret>>

AppNext ==
    \/ ClickCalculate
    \/ ClickModeToggle
    \/ ClickThemeToggle
    \/ ClickExportCSV
    \/ ClickExportPDF

AppSpec == AppInit /\ [][AppNext]_vars

-----------------------------------------------------------------------------
(* Arithmetic the properties are stated in: plain sums of the octets and   *)
(* of powers of two, with no shift or bitwise operator.                    *)

\* 2^n for n in 0 .. 32, as the product of two powers below 2^17
PowerOfTwo(n) == Mul(FromInt(2^(n \div 2)), FromInt(2^(n - (n \div 2))))

\* o0 * 2^24 + o1 * 2^16 + o2 * 2^8 + o3 of the address text o0.o1.o2.o3
AddressValue(a) ==
    LET o == Split(a)
    IN  Num(ToInt(ParseInt(o[1])) * 256 + ToInt(ParseInt(o[2])),
            ToInt(ParseInt(o[3])) * 256 + ToInt(ParseInt(o[4])))

\* the low k bits of a 32-bit value: a modulo 2^k, 0 <= k <= 32
LowBits(a, k) ==
    IF k >= 32 THEN a
    ELSE IF k >= 16 THEN Num(a.hi % 2^(k - 16), a.lo)
    ELSE Num(0, a.lo % 2^k)

\* a with its low k bits cleared, and with its low k bits set
ClearLow(a, k) == Sub(a, LowBits(a, k))
SetLow(a, k) == Add(ClearLow(a, k), Sub(PowerOfTwo(k), One))

\* the 32-bit value with p leading 1-bits followed by 32 - p 0-bits
LeadingOnes(p) == Sub(PowerOfTwo(32), PowerOfTwo(32 - p))

\* a modulo 2^32
Wrap32(a) == Num(a.hi % Two16, a.lo)

-----------------------------------------------------------------------------
(* The calls the properties are about.                                     *)

\* a call of fn on a valid address and a prefix in 0 .. 32
IsAddressCall(fn) ==
    call.fn = fn /\ call.ip \in ValidIPs /\ call.prefix \in Prefixes

\* calculateSubnets(ip, b, t) with a valid ip and 0 <= b < t <= 32
IsSplitCall ==
    /\ IsAddressCall("calculateSubnets")
    /\ call.newPrefix # Null
    /\ call.newPrefix[1] \in Prefixes
    /\ call.prefix < call.newPrefix[1]

\* calculateSubnets(ip, p, null) or calculateSubnets(ip, p, p), valid ip and p
IsSingleCall ==
    /\ IsAddressCall("calculateSubnets")
    /\ call.newPrefix \in {Null, Some(call.prefix)}

\* the prefix of the subnets of a successful call
EffectivePrefix == IF call.newPrefix = Null THEN call.prefix ELSE call.newPrefix[1]

NetworkOf(k) == AddressValue(ret.subnets[k].networkAddress)
BroadcastOf(k) == AddressValue(ret.subnets[k].broadcastAddress)
FirstUsableOf(k) == AddressValue(ret.subnets[k].firstUsable)
LastUsableOf(k) == AddressValue(ret.subnets[k].lastUsable)

-----------------------------------------------------------------------------
(* C1.  A split calculateSubnets(ip, b, t), valid ip, 0 <= b < t <= 32,    *)
(* returns exactly 2^(t-b) subnets, each spanning exactly 2^(32-t)         *)
(* addresses (broadcast - network + 1 = totalAddresses), contiguous,       *)
(* pairwise non-overlapping, and together covering exactly the base        *)
(* network: from ip with its low 32-b bits cleared to ip with them set.    *)

C1_SplitCoversBaseNetwork ==
    IsSplitCall =>
        LET b == call.prefix
            t == call.newPrefix[1]
            n == Len(ret.subnets)
            base == AddressValue(call.ip)
        IN  /\ ~ret.threw
            /\ FromInt(n) = PowerOfTwo(t - b)
            /\ \A k \in 1..n :
                   /\ ret.subnets[k].totalAddresses = PowerOfTwo(32 - t)
                   /\ Add(Sub(BroadcastOf(k), NetworkOf(k)), One) = PowerOfTwo(32 - t)
            /\ \A k \in 1..(n - 1) : NetworkOf(k + 1) = Add(BroadcastOf(k), One)
            /\ \A j \in 1..n : \A k \in (j + 1)..n : Lt(BroadcastOf(j), NetworkOf(k))
            /\ n >= 1 => NetworkOf(1) = ClearLow(base, 32 - b)
            /\ n >= 1 => BroadcastOf(n) = SetLow(base, 32 - b)

(* C2.  The list of a split is in ascending order: subnetNumber is the     *)
(* 1-based list position, subnet k has network integer                     *)
(* baseNetworkInteger + (k-1) * 2^(32-t), baseNetworkInteger being ip with *)
(* its 32-b host bits cleared, and network integers strictly increase.     *)

C2_SubnetKAtBasePlusOffset ==
    IsSplitCall =>
        LET b == call.prefix
            t == call.newPrefix[1]
            n == Len(ret.subnets)
            baseNetworkInteger == ClearLow(AddressValue(call.ip), 32 - b)
        IN  /\ ~ret.threw
            /\ \A k \in 1..n :
                   /\ ret.subnets[k].subnetNumber = k
                   /\ NetworkOf(k) =
                          Add(baseNetworkInteger, Mul(FromInt(k - 1), PowerOfTwo(32 - t)))
            /\ \A k \in 1..(n - 1) : Lt(NetworkOf(k), NetworkOf(k + 1))

(* C3.  prefixToMask(p), p in 0 .. 32, is the dotted-decimal form of the   *)
(* 32-bit value with exactly p leading 1-bits followed by 32-p 0-bits; in  *)
(* particular prefixToMask(0) = 0.0.0.0, prefixToMask(24) = 255.255.255.0  *)
(* and prefixToMask(32) = 255.255.255.255.                                 *)

C3_MaskHasPLeadingOnes ==
    call.fn = "prefixToMask" =>
        /\ isValidIP(ret.text)
        /\ AddressValue(ret.text) = LeadingOnes(call.prefix)
        /\ call.prefix = 0 => ret.text = "0.0.0.0"
        /\ call.prefix = 24 => ret.text = "255.255.255.0"
        /\ call.prefix = 32 => ret.text = "255.255.255.255"

(* C4.  getNetworkAddress(ip, p), valid ip, p in 0 .. 32, is the lowest    *)
(* address of the block: the top p bits of ip with the low 32-p bits 0     *)
(* (0.0.0.0 for p = 0), unchanged by ANDing with the p-bit prefix mask.    *)

C4_NetworkIsLowestOfBlock ==
    IsAddressCall("getNetworkAddress") =>
        LET network == AddressValue(ret.text)
        IN  /\ network = ClearLow(AddressValue(call.ip), 32 - call.prefix)
            /\ LowBits(network, 32 - call.prefix) = Zero
            /\ call.prefix = 0 => ret.text = "0.0.0.0"
            /\ ToUint32(BitAnd(network, LeadingOnes(call.prefix))) = network

(* C5.  getBroadcastAddress(ip, p), valid ip, p in 0 .. 32, is the highest *)
(* address of the block: the top p bits of ip with the low 32-p bits 1     *)
(* (ip itself for p = 32, 255.255.255.255 for p = 0).                      *)

C5_BroadcastIsHighestOfBlock ==
    IsAddressCall("getBroadcastAddress") =>
        /\ AddressValue(ret.text) = SetLow(AddressValue(call.ip), 32 - call.prefix)
        /\ call.prefix = 32 => ret.text = call.ip
        /\ call.prefix = 0 => ret.text = "255.255.255.255"


(* C6.  calculateSubnets(ip, p, null) and calculateSubnets(ip, p, p),     *)
(* valid ip and p, return the same one-element list and no error: subnet   *)
(* number 1, prefix p, network getNetworkAddress(ip, p), broadcast         *)
(* getBroadcastAddress(ip, p), first and last usable derived from those    *)
(* (network + 1 and broadcast - 1 modulo 2^32), mask and counts of p.      *)

C6_SingleNetworkForNullOrEqualPrefix ==
    IsSingleCall =>
        LET p == call.prefix
            network == getNetworkAddress(call.ip, p)
            broadcast == getBroadcastAddress(call.ip, p)
        IN  /\ ~ret.threw
            /\ Len(ret.subnets) = 1
            /\ ret.subnets[1].subnetNumber = 1
            /\ ret.subnets[1].prefix = p
            /\ ret.subnets[1].networkAddress = network
            /\ ret.subnets[1].broadcastAddress = broadcast
            /\ ret.subnets[1].firstUsable = getFirstUsable(network)
            /\ ret.subnets[1].lastUsable = getLastUsable(broadcast)
            /\ FirstUsableOf(1) = Wrap32(Add(AddressValue(network), One))
            /\ LastUsableOf(1) = Wrap32(Sub(AddressValue(broadcast), One))
            /\ ret.subnets[1].subnetMask = prefixToMask(p)
            /\ ret.subnets[1].usableHosts = getUsableHosts(p)
            /\ ret.subnets[1].totalAddresses = getTotalAddresses(p)

\* calculateSubnets("192.168.1.100", 24, 24) returned the one network
C6_Witness ==
    /\ IsSingleCall
    /\ call.ip = "192.168.1.100" /\ call.prefix = 24 /\ call.newPrefix = Some(24)
    /\ ~ret.threw
    /\ Len(ret.subnets) = 1
    /\ ret.subnets[1].networkAddress = "192.168.1.0"
    /\ ret.subnets[1].broadcastAddress = "192.168.1.255"
    /\ ret.subnets[1].firstUsable = "192.168.1.1"
    /\ ret.subnets[1].lastUsable = "192.168.1.254"

(* C7.  Every subnet calculateSubnets emits (single network or split,      *)
(* valid ip, prefixes in 0 .. 32) with usableHosts > 0 has, as unsigned    *)
(* 32-bit integers, network <= firstUsable <= lastUsable <= broadcast.     *)

C7_UsableRangeInsideBlock ==
    (IsSplitCall \/ IsSingleCall) =>
        \A k \in 1..Len(ret.subnets) :
            Lt(Zero, ret.subnets[k].usableHosts) =>
                /\ Le(NetworkOf(k), FirstUsableOf(k))
                /\ Le(FirstUsableOf(k), LastUsableOf(k))
                /\ Le(LastUsableOf(k), BroadcastOf(k))

(* C8.  Every subnet calculateSubnets emits with effective prefix p <= 30  *)
(* has firstUsable = network + 1 and lastUsable = broadcast - 1 with no    *)
(* 32-bit wrap-around, and [firstUsable, lastUsable] holds exactly         *)
(* usableHosts addresses.                                                  *)

C8_UsableRangeExact ==
    ((IsSplitCall \/ IsSingleCall) /\ EffectivePrefix <= 30) =>
        \A k \in 1..Len(ret.subnets) :
            /\ FirstUsableOf(k) = Add(NetworkOf(k), One)
            /\ LastUsableOf(k) = Sub(BroadcastOf(k), One)
            /\ Add(Sub(LastUsableOf(k), FirstUsableOf(k)), One)
                   = ret.subnets[k].usableHosts

(* C9.  For every prefix p in 0 .. 32: getTotalAddresses(p) = 2^(32-p);    *)
(* getUsableHosts(p) = 2^(32-p) - 2 when p <= 30 and 0 when p is 31 or 32; *)
(* getUsableHosts is never negative.                                       *)

C9_HostCounts ==
    /\ call.fn = "getTotalAddresses" => ret.num = PowerOfTwo(32 - call.prefix)
    /\ call.fn = "getUsableHosts" =>
           /\ call.prefix <= 30 =>
                  ret.num = Sub(PowerOfTwo(32 - call.prefix), FromInt(2))
           /\ call.prefix \in {31, 32} => ret.num = Zero
           /\ Ge(ret.num, Zero)

\* getUsableHosts(32) returned 0
C9_Witness ==
    call.fn = "getUsableHosts" /\ call.prefix = 32 /\ ret.num = Zero

(* C10.  For every valid dotted-decimal address a, intToIP(ipToInt(a)) = a. *)

C10_AddressRoundTrip ==
    (call.fn = "ipToInt" /\ isValidIP(call.ip)) => intToIP(ret.num) = call.ip

\* ipToInt("255.255.255.254") returned 2^32 - 2, which intToIP takes back
C10_Witness ==
    /\ call.fn = "ipToInt" /\ call.ip = "255.255.255.254"
    /\ isValidIP(call.ip)
    /\ ret.num = Num(Two16 - 1, Two16 - 2)
    /\ intToIP(ret.num) = "255.255.255.254"

(* C11.  For every unsigned 32-bit integer n in 0 .. 2^32 - 1, the values  *)
(* from 2^31 on included, ipToInt(intToIP(n)) = n.                         *)

C11_IntegerRoundTrip ==
    call.fn = "intToIP" => ipToInt(ret.text) = call.int

\* intToIP(2^31) returned 128.0.0.0, which ipToInt takes back to 2^31
C11_Witness ==
    /\ call.fn = "intToIP" /\ call.int = Num(Two15, 0)
    /\ ret.text = "128.0.0.0"
    /\ ipToInt(ret.text) = Num(Two15, 0)

(* C12.  For every valid address o0.o1.o2.o3, ipToInt returns exactly      *)
(* o0 * 2^24 + o1 * 2^16 + o2 * 2^8 + o3, a value in 0 .. 2^32 - 1, also   *)
(* when o0 >= 128: no signed intermediate shows in the result.             *)

C12_IpToIntIsBigEndianSum ==
    (call.fn = "ipToInt" /\ isValidIP(call.ip)) =>
        /\ ret.num = AddressValue(call.ip)
        /\ Le(Zero, ret.num)
        /\ Lt(ret.num, PowerOfTwo(32))

\* ipToInt("128.0.0.0") returned 2^31, not -2^31
C12_Witness ==
    /\ call.fn = "ipToInt" /\ call.ip = "128.0.0.0"
    /\ ret.num = Num(Two15, 0)
    /\ Le(Zero, ret.num)

(* C13.  isValidIP(text) is true if and only if text splits on "." into    *)
(* exactly four segments, each the canonical decimal form (digits only, no *)
(* leading zero, sign, whitespace or empty segment) of an integer in       *)
(* 0 .. 255: "192.168.1.0" is accepted; "256.1.1.1", "192.168.01.0",       *)
(* "1.2.3" and "1.2.3.4.5" are rejected.                                   *)

\* the value of a text of one to three digits
DecimalValue(seg) ==
    LET D(i) == DigitValue(CharAt(seg, i))
    IN  IF Len(seg) = 1 THEN D(1)
        ELSE IF Len(seg) = 2 THEN 10 * D(1) + D(2)
        ELSE 100 * D(1) + 10 * D(2) + D(3)

IsCanonicalOctet(seg) ==
    /\ Len(seg) \in 1..3
    /\ \A i \in 1..Len(seg) : IsDigit(CharAt(seg, i))
    /\ Len(seg) > 1 => CharAt(seg, 1) # "0"
    /\ DecimalValue(seg) <= 255

IsCanonicalAddress(text) ==
    LET segments == Split(text)
    IN  /\ Len(segments) = 4
        /\ \A k \in 1..4 : IsCanonicalOctet(segments[k])

C13_ValidIffCanonical ==
    call.fn = "isValidIP" =>
        /\ ret.bool <=> IsCanonicalAddress(call.ip)
        /\ call.ip = "192.168.1.0" => ret.bool
        /\ call.ip \in {"256.1.1.1", "192.168.01.0", "1.2.3", "1.2.3.4.5"} => ~ret.bool

\* isValidIP("192.168.01.0") returned false: a leading zero
C13_Witness ==
    /\ call.fn = "isValidIP" /\ call.ip = "192.168.01.0"
    /\ ~ret.bool
    /\ ~IsCanonicalAddress(call.ip)

(* C14.  isValidPrefix(value) is true if and only if value is an integer   *)
(* with 0 <= value <= 32; it is false for -1, for 33 and for every         *)
(* non-integer, 24.5 and NaN among them.                                   *)

C14_ValidPrefixIffIntegerInRange ==
    call.fn = "isValidPrefix" =>
        /\ ret.bool <=> (\E n \in 0..32 : call.value = Whole(n))
        /\ call.value \in {Whole(-1), Whole(33), Halves(49), NaNValue} => ~ret.bool
        /\ call.value \in {Whole(0), Whole(32)} => ret.bool

\* isValidPrefix(24.5) returned false
C14_Witness ==
    call.fn = "isValidPrefix" /\ call.value = Halves(49) /\ ~ret.bool

(* C15.  calculateSubnets(ip, b, t) throws, returning no list, exactly     *)
(* when ip is not a valid address, or b is not a valid prefix, or t is     *)
(* given, differs from b, and is not a valid prefix or is not greater than *)
(* b.  In every other case it returns the whole list: one subnet for a     *)
(* null t or t = b, 2^(t-b) subnets numbered 1 .. 2^(t-b) for t > b.  A    *)
(* call with t < b never succeeds.                                         *)

\* the calls of calculateSubnets that are to fail
MustFail(ip, b, t) ==
    \/ ~IsCanonicalAddress(ip)
    \/ b \notin 0..32
    \/ /\ t # Null
       /\ t[1] # b
       /\ (t[1] \notin 0..32 \/ ~(t[1] > b))

\* the length of the list of a call that is to succeed
WholeLength(b, t) == IF t = Null \/ t[1] = b THEN 1 ELSE 2^(t[1] - b)

C15_FailsExactlyOnInvalidInput ==
    call.fn = "calculateSubnets" =>
        /\ ret.threw <=> MustFail(call.ip, call.prefix, call.newPrefix)
        /\ ret.threw => ret.subnets = <<>>
        /\ ~ret.threw =>
              /\ Len(ret.subnets) = WholeLength(call.prefix, call.newPrefix)
              /\ Len(ret.subnets) >= 1
              /\ \A k \in 1..Len(ret.subnets) : ret.subnets[k].subnetNumber = k
        /\ (call.newPrefix # Null /\ call.newPrefix[1] < call.prefix) => ret.threw

\* a merge of a valid /24 into a /16 was refused
C15_Witness ==
    /\ call = Call("calculateSubnets", "192.168.1.0", 24, Some(16))
    /\ ret.threw /\ ret.subnets = <<>>
    /\ MustFail(call.ip, call.prefix, call.newPrefix)

(* C16.  The failures of calculateSubnets tell their kind: an invalid      *)
(* address, an invalid prefix (base or new) and a split to a valid new     *)
(* prefix smaller than the base prefix are signalled by errors of three    *)
(* sets no two of which share a value, and an error of a set is thrown     *)
(* only by a call that has the failure of that set.                        *)

AddressErrors == {"Invalid IP address"}
PrefixErrors == {"Invalid base prefix", "Invalid new prefix"}
OrderErrors == {"New prefix must be larger than base prefix"}

HasInvalidAddress == ~IsCanonicalAddress(call.ip)

HasInvalidPrefix ==
    \/ call.prefix \notin 0..32
    \/ call.newPrefix # Null /\ call.newPrefix[1] \notin 0..32

HasSmallerNewPrefix ==
    /\ call.newPrefix # Null
    /\ call.newPrefix[1] \in 0..32
    /\ call.newPrefix[1] < call.prefix

C16_ErrorsTellTheirKind ==
    (call.fn = "calculateSubnets" /\ ret.threw) =>
        /\ AddressErrors \cap PrefixErrors = {}
        /\ AddressErrors \cap OrderErrors = {}
        /\ PrefixErrors \cap OrderErrors = {}
        /\ ret.error \in AddressErrors \cup PrefixErrors \cup OrderErrors
        /\ ret.error \in AddressErrors => HasInvalidAddress
        /\ ret.error \in PrefixErrors => HasInvalidPrefix
        /\ ret.error \in OrderErrors => HasSmallerNewPrefix

\* a split of a valid /24 to the valid prefix 16 threw the error of its kind
C16_Witness ==
    /\ call = Call("calculateSubnets", "10.0.0.1", 24, Some(16))
    /\ ret.threw /\ ret.error \in OrderErrors
    /\ HasSmallerNewPrefix /\ ~HasInvalidAddress /\ ~HasInvalidPrefix

(* C17.  Every getCalculationSummary(ip, b, t) that returns has            *)
(* effectivePrefix = t for a given t and = b for a null t; its subnets     *)
(* are 2^(t-b) for t > b and exactly 1 for a null t or t = b; totalSubnets *)
(* is the length of subnets; basePrefix and newPrefix are b and t.         *)

C17_SummaryEchoesAndCounts ==
    (call.fn = "getCalculationSummary" /\ ~ret.threw) =>
        /\ ret.summary.effectivePrefix =
               (IF call.newPrefix # Null THEN call.newPrefix[1] ELSE call.prefix)
        /\ Len(ret.summary.subnets) =
               (IF call.newPrefix # Null /\ call.newPrefix[1] > call.prefix
                THEN 2^(call.newPrefix[1] - call.prefix) ELSE 1)
        /\ ret.summary.totalSubnets = Len(ret.summary.subnets)
        /\ ret.summary.basePrefix = call.prefix
        /\ ret.summary.newPrefix = call.newPrefix

\* the summary of the split of a /24 into four /26
C17_Witness ==
    /\ call = Call("getCalculationSummary", "192.168.1.0", 24, Some(26))
    /\ ~ret.threw
    /\ ret.summary.effectivePrefix = 26
    /\ ret.summary.totalSubnets = 4
    /\ Len(ret.summary.subnets) = 4

(* C18.  For every valid ip, getNetworkClass(ip) is decided by the first   *)
(* octet alone and is one of six values: "A" for 1..126, "B" for 128..191, *)
(* "C" for 192..223, "D (Multicast)" for 224..239, "E (Reserved)" for      *)
(* 240..255 and "Unknown" for 0 and 127.                                   *)

\* the first octet of a valid address
FirstOctet(ip) == AddressValue(ip).hi \div 256

\* the class letter of a first octet
ClassLetter(o) ==
    IF o \in 1..126 THEN "A"
    ELSE IF o \in 128..191 THEN "B"
    ELSE IF o \in 192..223 THEN "C"
    ELSE IF o \in 224..239 THEN "D"
    ELSE IF o \in 240..255 THEN "E"
    ELSE "Unknown"

\* the value returned for a class letter
ClassLabel(letter) ==
    IF letter = "D" THEN "D (Multicast)"
    ELSE IF letter = "E" THEN "E (Reserved)"
    ELSE letter

Between(ip, low, high) ==
    /\ Le(AddressValue(low), AddressValue(ip))
    /\ Le(AddressValue(ip), AddressValue(high))

InPrivateRange(ip) ==
    \/ Between(ip, "10.0.0.0", "10.255.255.255")
    \/ Between(ip, "172.16.0.0", "172.31.255.255")
    \/ Between(ip, "192.168.0.0", "192.168.255.255")

C19_PrivateIffInRange ==
    (call.fn = "isPrivateIP" /\ IsCanonicalAddress(call.ip)) =>
        /\ ret.bool <=> InPrivateRange(call.ip)
        /\ call.ip \in { "9.255.255.255", "11.0.0.0", "172.15.255.255",
                          "172.32.0.0", "192.167.255.255", "192.169.0.0" }
              => ~ret.bool
        /\ call.ip \in { "10.0.0.0", "10.255.255.255", "172.16.0.0",
                          "172.31.255.255", "192.168.0.0", "192.168.255.255" }
              => ret.bool

\* the last address of 172.16.0.0/12 was found private
C19_Witness ==
    /\ call.fn = "isPrivateIP" /\ call.ip = "172.31.255.255"
    /\ InPrivateRange(call.ip)
    /\ ret.bool

(* C20.  Every address field (networkAddress, broadcastAddress,            *)
(* firstUsable, lastUsable, subnetMask) of every subnet calculateSubnets   *)
(* emits for a valid ip and prefixes in 0 .. 32 is a valid dotted-decimal  *)
(* address, four octets in 0 .. 255, and the sums and differences are      *)
(* taken modulo 2^32: firstUsable is network + 1, lastUsable is            *)
(* broadcast - 1, broadcast is network + size - 1 and the network of       *)
(* subnet k of a split is the first network + (k - 1) * size, each         *)
(* modulo 2^32.                                                            *)

AddressFields(subnet) ==
    { subnet.networkAddress, subnet.broadcastAddress, subnet.firstUsable,
      subnet.lastUsable, subnet.subnetMask }

C20_AddressFieldsWrapTo32Bits ==
    (IsSplitCall \/ IsSingleCall) =>
        /\ ~ret.threw
        /\ \A k \in 1..Len(ret.subnets) :
            /\ \A field \in AddressFields(ret.subnets[k]) :
                   IsCanonicalAddress(field)
            /\ FirstUsableOf(k) = Wrap32(Add(NetworkOf(k), One))
            /\ LastUsableOf(k) = Wrap32(Sub(BroadcastOf(k), One))
            /\ IsSplitCall =>
                  /\ BroadcastOf(k) =
                        Wrap32(Sub(Add(NetworkOf(k), PowerOfTwo(32 - EffectivePrefix)),
                                   One))
                  /\ NetworkOf(k) =
                        Wrap32(Add(NetworkOf(1),
                                   Mul(FromInt(k - 1), PowerOfTwo(32 - EffectivePrefix))))

\* the first usable address after 255.255.255.255 wrapped to 0.0.0.0
C20_Witness ==
    /\ call = Call("calculateSubnets", "255.255.255.255", 32, Null)
    /\ Len(ret.subnets) = 1
    /\ ret.subnets[1].networkAddress = "255.255.255.255"
    /\ ret.subnets[1].firstUsable = "0.0.0.0"
    /\ Add(NetworkOf(1), One) = PowerOfTwo(32)

(* C22.  For every valid ip and prefix p in 0 .. 32, the integer of        *)
(* getBroadcastAddress(ip, p) bitwise-ORed with the complement of the      *)
(* integer of prefixToMask(p) is the integer of getBroadcastAddress(ip,    *)
(* p): every bit the mask leaves 0 is 1 in the broadcast address.          *)

\* the bitwise OR of two naturals, bit by bit from the lowest
RECURSIVE OrNat(_, _)
OrNat(x, y) ==
    IF x = 0 THEN y
    ELSE IF y = 0 THEN x
    ELSE 2 * OrNat(x \div 2, y \div 2) + (IF x % 2 = 1 \/ y % 2 = 1 THEN 1 ELSE 0)

\* the bitwise OR and complement of 32-bit values
Or32(a, b) == Num(OrNat(a.hi, b.hi), OrNat(a.lo, b.lo))
Not32(a) == Num(Two16 - 1 - a.hi, Two16 - 1 - a.lo)

\* the integers of the broadcast address returned and of the mask of the call
BroadcastReturned == AddressValue(ret.text)
MaskOfCall == AddressValue(prefixToMask(call.prefix))

C22_BroadcastHasHostBitsSet ==
    IsAddressCall("getBroadcastAddress") =>
        Or32(BroadcastReturned, Not32(MaskOfCall)) = BroadcastReturned

\* 192.168.1.255 keeps its value when ORed with 0.0.0.255
C22_Witness ==
    /\ IsAddressCall("getBroadcastAddress")
    /\ call.ip = "192.168.1.0" /\ call.prefix = 24
    /\ ret.text = "192.168.1.255"
    /\ Not32(MaskOfCall) = Num(0, 255)
    /\ Or32(BroadcastReturned, Not32(MaskOfCall)) = BroadcastReturned

\* C22 as first stated: the broadcast integer ORed with the mask integer
\* itself is the broadcast integer
C22_BroadcastAbsorbsMask ==
    IsAddressCall("getBroadcastAddress") =>
        Or32(BroadcastReturned, MaskOfCall) = BroadcastReturned

(* C23.  A text that is no valid address makes ipToInt, getNetworkAddress, *)
(* getBroadcastAddress and calculateSubnets signal the invalid-address     *)
(* failure; none of them returns an integer or an address computed from    *)
(* the text.                                                               *)

C23_InvalidAddressRefused ==
    ( /\ call.fn \in { "ipToInt", "getNetworkAddress", "getBroadcastAddress",
                        "calculateSubnets" }
      /\ ~IsCanonicalAddress(call.ip) ) =>
        /\ ret.threw
        /\ ret.error \in AddressErrors

(* C27.  calculateSubnets reports the first violation only, in a fixed     *)
(* order: an invalid ip whatever the prefixes are; else an invalid base    *)
(* prefix whatever the new prefix is; else, for a given new prefix that    *)
(* differs from the base, a new prefix outside 0 .. 32 as an invalid new   *)
(* prefix, even when it is smaller than the base (-1); else a valid new    *)
(* prefix smaller than the base as a split that does not expand.           *)

\* the error of the first violation of a call, "" for a call with none
FirstViolation(ip, b, t) ==
    IF ~IsCanonicalAddress(ip) THEN "Invalid IP address"
    ELSE IF b \notin 0..32 THEN "Invalid base prefix"
    ELSE IF t = Null \/ t[1] = b THEN ""
    ELSE IF t[1] \notin 0..32 THEN "Invalid new prefix"
    ELSE IF t[1] < b THEN "New prefix must be larger than base prefix"
    ELSE ""

C27_FirstViolationReported ==
    call.fn = "calculateSubnets" =>
        /\ ret.error = FirstViolation(call.ip, call.prefix, call.newPrefix)
        /\ ret.threw <=> ret.error # ""

\* the new prefix -1 of a /24 was reported as invalid, not as too small
C27_Witness ==
    /\ call = Call("calculateSubnets", "192.168.1.0", 24, Some(-1))
    /\ ret.threw
    /\ ret.error = "Invalid new prefix"

(* C29.  Every summary getCalculationSummary returns agrees with its list  *)
(* of subnets: baseNetwork is the networkAddress of the first subnet;      *)
(* every subnet has prefix = effectivePrefix, subnetMask = the summary's   *)
(* subnetMask, usableHosts = hostsPerSubnet and totalAddresses = the       *)
(* summary's totalAddresses; totalSubnets is the length of the list.       *)

C29_SummaryAgreesWithSubnets ==
    (call.fn = "getCalculationSummary" /\ ~ret.threw) =>
        /\ Len(ret.summary.subnets) >= 1
        /\ ret.summary.baseNetwork = ret.summary.subnets[1].networkAddress
        /\ \A k \in 1..Len(ret.summary.subnets) :
            /\ ret.summary.subnets[k].prefix = ret.summary.effectivePrefix
            /\ ret.summary.subnets[k].subnetMask = ret.summary.subnetMask
            /\ ret.summary.subnets[k].usableHosts = ret.summary.hostsPerSubnet
            /\ ret.summary.subnets[k].totalAddresses = ret.summary.totalAddresses
        /\ ret.summary.totalSubnets = Len(ret.summary.subnets)

\* the summary of the split of 10.0.0.0/8 into four /10
C29_Witness ==
    /\ call = Call("getCalculationSummary", "10.0.0.1", 8, Some(10))
    /\ ~ret.threw
    /\ ret.summary.baseNetwork = "10.0.0.0"
    /\ ret.summary.subnets[1].networkAddress = "10.0.0.0"
    /\ ret.summary.subnets[4].prefix = 10
    /\ ret.summary.subnetMask = "255.192.0.0"

-----------------------------------------------------------------------------
(* The inputs of a click on Calculate, as the properties of the            *)
(* application read them from the event.                                   *)

\* the address, base prefix and new prefix typed: the texts without the
\* spaces around them, the prefixes as the numbers parseInt reads, Null
\* for an empty new prefix
TypedIP(e) == Trim(e.baseIP)
TypedBase(e) == ParseInt(e.basePrefix)
TypedNew(e) == IF Trim(e.newPrefix) = "" THEN Null ELSE << ParseInt(Trim(e.newPrefix)) >>

\* a number that is an integer of 0 .. 32
IsPrefixNumber(n) == ~n.nan /\ n.hi = 0 /\ n.lo \in 0..32

\* the inputs fail: invalid IP, invalid base prefix, invalid new prefix, or
\* a new prefix not larger than the base prefix
InputsFail(e) ==
    \/ ~IsCanonicalAddress(TypedIP(e))
    \/ ~IsPrefixNumber(TypedBase(e))
    \/ /\ TypedNew(e) # Null
       /\ \/ ~IsPrefixNumber(TypedNew(e)[1])
          \/ TypedNew(e)[1].lo <= TypedBase(e).lo

\* the summary the engine gives for inputs that do not fail
SummaryOfInputs(e) ==
    getCalculationSummary(TypedIP(e), TypedBase(e).lo,
                          IF TypedNew(e) = Null THEN Null
                          ELSE Some(TypedNew(e)[1].lo)).summary

\* what is stored and displayed of the last calculation
StoredAndDisplayed(st, els) ==
    << st.lastCalculation, els.results, els.explanationContent, els.visualizations >>

(* C24.  A handleCalculate whose inputs fail leaves state.lastCalculation, *)
(* the results and the learning and diagram content as they were; one      *)
(* whose inputs do not fail stores and displays the summary of its inputs; *)
(* no other handler changes what is stored or the results.  So the results *)
(* displayed are always those of state.lastCalculation, the most recent    *)
(* calculation that succeeded, and none while none succeeded.              *)

C24_ResultsAreLastCalculation ==
    elements.results =
        (IF state.lastCalculation = Null THEN <<>>
         ELSE << state.lastCalculation[1].summary >>)

C24_CalculateStep ==
    /\ (event'.handler = "handleCalculate" /\ InputsFail(event')) =>
           StoredAndDisplayed(state', elements') = StoredAndDisplayed(state, elements)
    /\ (event'.handler = "handleCalculate" /\ ~InputsFail(event')) =>
           /\ state'.lastCalculation # Null
           /\ state'.lastCalculation[1].summary = SummaryOfInputs(event')
           /\ elements'.results = << SummaryOfInputs(event') >>
    /\ event'.handler # "handleCalculate" =>
           /\ state'.lastCalculation = state.lastCalculation
           /\ elements'.results = elements.results

C24_FailedCalculationChangesNothing ==
    [] C24_ResultsAreLastCalculation /\ [][C24_CalculateStep]_vars

\* a calculation was refused after one had succeeded, whose results stay
C24_Witness ==
    /\ event.handler = "handleCalculate" /\ InputsFail(event)
    /\ alert # ""
    /\ state.lastCalculation # Null
    /\ elements.results = << state.lastCalculation[1].summary >>
    /\ elements.resultsSectionHidden = FALSE

(* C25.  Preferences are written on every toggle and by nothing else, and  *)
(* read at init only: once a toggle has stored them, the item in storage   *)
(* reads back as { mode: state.mode, theme: state.theme }; toggleMode      *)
(* takes mode from 'beginner' to 'expert' and from 'expert' to 'beginner'  *)
(* and leaves theme and lastCalculation alone; toggleTheme does the same   *)
(* for theme between 'light' and 'dark'; handleCalculate and the exports   *)
(* change neither the storage nor mode and theme.                          *)

C25_StoredIsState ==
    lastSave = "saved" =>
        /\ localStorage # <<>>
        /\ JSONParse(localStorage[1]) =
              [threw |-> FALSE, mode |-> state.mode, theme |-> state.theme]

C25_ToggleStep ==
    /\ event'.handler = "toggleMode" =>
           /\ state.mode = "beginner" => state'.mode = "expert"
           /\ state.mode = "expert" => state'.mode = "beginner"
           /\ state'.mode \in {"beginner", "expert"}
           /\ state'.theme = state.theme
           /\ state'.lastCalculation = state.lastCalculation
           /\ lastSave' = "saved" =>
                 localStorage' = << JSONStringify(state'.mode, state'.theme) >>
    /\ event'.handler = "toggleTheme" =>
           /\ state.theme = "light" => state'.theme = "dark"
           /\ state.theme = "dark" => state'.theme = "light"
           /\ state'.theme \in {"light", "dark"}
           /\ state'.mode = state.mode
           /\ state'.lastCalculation = state.lastCalculation
           /\ lastSave' = "saved" =>
                 localStorage' = << JSONStringify(state'.mode, state'.theme) >>
    /\ event'.handler \notin {"toggleMode", "toggleTheme"} =>
           /\ localStorage' = localStorage
           /\ lastSave' = lastSave
           /\ state'.mode = state.mode
           /\ state'.theme = state.theme

C25_PreferencesWrittenOnToggle ==
    [] C25_StoredIsState /\ [][C25_ToggleStep]_vars

\* after toggles and a calculation, the storage holds expert and dark
C25_Witness ==
    /\ event.handler = "handleCalculate"
    /\ lastSave = "saved"
    /\ state.mode = "expert" /\ state.theme = "dark"
    /\ state.lastCalculation # Null
    /\ localStorage = << "{\"mode\":\"expert\",\"theme\":\"dark\"}" >>

(* C26.  An export produces a file only after a calculation has succeeded: *)
(* while state.lastCalculation is null, handleExportCSV and                *)
(* handleExportPDF show an error and no exporter is called; once a         *)
(* calculation has succeeded lastCalculation is never null again, it       *)
(* changes only by a calculation that succeeds, to the summary of that     *)
(* calculation, and every export serialises its summary.                   *)

IsExport(e) == e.handler \in {"handleExportCSV", "handleExportPDF"}

C26_ExportOfLastCalculation ==
    /\ download # NoDownload => IsExport(event) /\ state.lastCalculation # Null
    /\ (IsExport(event) /\ state.lastCalculation = Null) =>
           download = NoDownload /\ alert # "" /\ success = ""
    /\ (IsExport(event) /\ state.lastCalculation # Null) =>
           /\ download # NoDownload
           /\ alert = ""
           /\ download[1].summary = state.lastCalculation[1].summary
           /\ download[1].kind = (IF event.handler = "handleExportCSV" THEN "csv"
                                  ELSE "pdf")

C26_LastCalculationStep ==
    /\ state.lastCalculation # Null => state'.lastCalculation # Null
    /\ state'.lastCalculation # state.lastCalculation =>
           /\ event'.handler = "handleCalculate"
           /\ ~InputsFail(event')
    /\ (event'.handler = "handleCalculate" /\ ~InputsFail(event')) =>
           state'.lastCalculation[1].summary = SummaryOfInputs(event')
    /\ IsExport(event') => state' = state

C26_ExportNeedsCalculation ==
    [] C26_ExportOfLastCalculation /\ [][C26_LastCalculationStep]_vars

\* a PDF of the split calculated last was downloaded
C26_Witness ==
    /\ event.handler = "handleExportPDF"
    /\ download # NoDownload
    /\ download[1].kind = "pdf"
    /\ Len(download[1].summary.subnets) > 1
    /\ download[1].summary = state.lastCalculation[1].summary

(* C28.  With the learning panel hidden when the page loads: after any     *)
(* sequence of calculations, mode toggles and theme toggles, the learning  *)
(* panel and the visual components are visible if and only if state.mode   *)
(* is 'beginner' and state.lastCalculation is not null, and what they show *)
(* while visible was generated from state.lastCalculation.                 *)

C28_LearningPanelShowsLastCalculation ==
    /\ ~elements.learningPanelHidden <=>
           (state.mode = "beginner" /\ state.lastCalculation # Null)
    /\ ~elements.visualComponentsHidden <=>
           (state.mode = "beginner" /\ state.lastCalculation # Null)
    /\ ~elements.learningPanelHidden =>
           /\ elements.explanationContent = state.lastCalculation
           /\ elements.visualizations = state.lastCalculation

\* back in beginner mode, the panel shows the split calculated last
C28_Witness ==
    /\ event.handler = "toggleMode"
    /\ state.mode = "beginner"
    /\ state.lastCalculation # Null
    /\ Len(state.lastCalculation[1].summary.subnets) > 1
    /\ ~elements.learningPanelHidden
    /\ elements.explanationContent = state.lastCalculation

(* C30.  A handleCalculate with a valid IP, a valid base prefix b and the  *)
(* new prefix b as well calculates the single network, as the engine does  *)
(* for equal prefixes: it shows no error, stores the summary in            *)
(* state.lastCalculation and displays its one subnet.                      *)

\* a click on Calculate with a valid IP and equal valid prefixes
IsEqualPrefixClick ==
    /\ event.handler = "handleCalculate"
    /\ IsCanonicalAddress(TypedIP(event))
    /\ IsPrefixNumber(TypedBase(event))
    /\ TypedNew(event) = << TypedBase(event) >>

C30_EqualPrefixCalculates ==
    IsEqualPrefixClick =>
        /\ alert = ""
        /\ state.lastCalculation # Null
        /\ state.lastCalculation[1].summary = SummaryOfInputs(event)
        /\ elements.results = << SummaryOfInputs(event) >>
        /\ Len(elements.results[1].subnets) = 1

====
